---------------------------- MODULE Spec2Model ----------------------------
(***************************************************************************)
(* Model of the procedural macros of hill_vacuum_proc_macros (src/lib.rs). *)
(*                                                                         *)
(* A macro is a pure function from a token stream to generated text.  An   *)
(* invocation is one action: it reads `input` and writes `output`.  The    *)
(* generated text is kept structured (match arms, constants) instead of    *)
(* flat text, and the code generated by EnumFromUsize and EnumIter is      *)
(* modelled by the actions that run it (from, iter, next).                 *)
(*                                                                         *)
(* Strings are sequences of one-character strings, so that the character   *)
(* scans of the source can be written as they are.                         *)
(***************************************************************************)
EXTENDS Integers, Sequences, FiniteSets, TLC

VARIABLES
    macro,              \* the entry point that is invoked
    input,              \* the TokenStream handed to the entry point
    textures_interval,  \* *TEXTURE_HEIGHT_RANGE.end() (read by color_enum)
    tool_rs,            \* the Tool enum of tool.rs as bind_enum finds it
    overflow_checks,    \* whether the generated code panics on overflow
    output,             \* what the entry point returned, or that it panicked
    iters,              \* the EnumIterator values built by the generated iter()
    yielded,            \* what each EnumIterator returned from next(), in order
    converted           \* the last call of the generated From<usize>::from

vars == << macro, input, textures_interval, tool_rs, overflow_checks, output,
           iters, yielded, converted >>

-----------------------------------------------------------------------------
(* Bounds of the model.                                                    *)

MaxVariants == 3        \* variants of a flat enum
MaxExtraCalls == 2      \* next() calls past the end, indices past the end
MaxSection == 2         \* entries of one list section of color_enum
MaxTexturesInterval == 2
MaxIdLen == 3           \* length of the identifiers given to the case scans
MaxAliasLen == 2        \* length of the identifiers of an alias pair
MaxAmount == 11         \* size given to str_array

-----------------------------------------------------------------------------
(* Characters.                                                             *)

UpperSeq == << "A","B","C","D","E","F","G","H","I","J","K","L","M",
               "N","O","P","Q","R","S","T","U","V","W","X","Y","Z" >>
LowerSeq == << "a","b","c","d","e","f","g","h","i","j","k","l","m",
               "n","o","p","q","r","s","t","u","v","w","x","y","z" >>

Range(s) == { s[i] : i \in DOMAIN s }

\* char::is_uppercase, on the ASCII letters
is_uppercase(c) == c \in Range(UpperSeq)

\* char::is_ascii_uppercase
is_ascii_uppercase(c) == c \in Range(UpperSeq)

\* char::to_ascii_lowercase
to_ascii_lowercase(c) ==
    IF \E i \in DOMAIN UpperSeq : UpperSeq[i] = c
    THEN LowerSeq[CHOOSE i \in DOMAIN UpperSeq : UpperSeq[i] = c]
    ELSE c

\* str::to_ascii_lowercase
str_to_ascii_lowercase(s) == [i \in DOMAIN s |-> to_ascii_lowercase(s[i])]

\* str::replace(from, to) for single characters
str_replace(s, from, to) == [i \in DOMAIN s |-> IF s[i] = from THEN to ELSE s[i]]

-----------------------------------------------------------------------------
(* Tokens: proc_macro::TokenTree.                                          *)

Ident(s)   == [kind |-> "Ident",   text |-> s,     stream |-> << >>]
Punct(c)   == [kind |-> "Punct",   text |-> <<c>>, stream |-> << >>]
Literal(s) == [kind |-> "Literal", text |-> s,     stream |-> << >>]
Group(ts)  == [kind |-> "Group",   text |-> << >>, stream |-> ts]

RECURSIVE stream_to_string(_)
\* TokenTree::to_string: the text of a leaf; a group is its delimiters around
\* the text of its children
to_string(t) ==
    IF t.kind = "Group"
    THEN <<"(">> \o stream_to_string(t.stream) \o <<")">>
    ELSE t.text
stream_to_string(ts) ==
    IF ts = << >> THEN << >>
    ELSE (IF Head(ts).kind = "Group"
          THEN <<"(", ")">>
          ELSE Head(ts).text)
         \o (IF Len(ts) > 1 THEN <<" ">> ELSE << >>)
         \o stream_to_string(Tail(ts))

\* is_comma: panics unless `value` is the punctuation ','
is_comma(value) == value.kind = "Punct" /\ value.text = <<",">>

\* for_each_ident_in_group: the Ident children of the group, in order, each
\* of which is handed to the closure
for_each_ident_in_group(group) ==
    SelectSeq(group.stream, LAMBDA item : item.kind = "Ident")

-----------------------------------------------------------------------------
(* The derive macros of a plain enum.                                      *)

KwEnum == <<"e","n","u","m">>

NoIdent == [panic |-> TRUE, ident |-> << >>, iter |-> << >>]

RECURSIVE enum_ident_any_ident(_)
\* enum_ident with the comparison with "enum" left out: the first Ident is
\* taken for the keyword
enum_ident_any_ident(iter) ==
    IF iter = << >> THEN NoIdent
    ELSE LET item == Head(iter)
             rest == Tail(iter)
         IN IF item.kind # "Ident" THEN enum_ident_any_ident(rest)
            ELSE IF rest # << >> /\ Head(rest).kind = "Ident"
                 THEN [panic |-> FALSE, ident |-> Head(rest).text, iter |-> Tail(rest)]
                 ELSE NoIdent

RECURSIVE enum_ident(_)
\* enum_ident: skips to the Ident "enum" and returns the Ident after it, with
\* the iterator left behind that Ident
enum_ident(iter) ==
    IF iter = << >> THEN NoIdent
    ELSE LET item == Head(iter)
             rest == Tail(iter)
         IN IF item.kind # "Ident" THEN enum_ident(rest)
            ELSE IF item.text = KwEnum
            THEN IF rest # << >> /\ Head(rest).kind = "Ident"
                 THEN [panic |-> FALSE, ident |-> Head(rest).text, iter |-> Tail(rest)]
                 ELSE NoIdent
            ELSE enum_ident(rest)

\* whether iter.next_value() is a Group, which for_each_ident_in_group needs
next_is_group(iter) == iter # << >> /\ Head(iter).kind = "Group"

RECURSIVE count_calls(_, _)
\* the closure |_| i += 1 applied to each element of `idents`
count_calls(idents, i) ==
    IF idents = << >> THEN i ELSE count_calls(Tail(idents), i + 1)

\* enum_len with the filter on Ident tokens left out: every token counts
enum_len_every_token(iter) == Len(Head(iter).stream)

\* enum_len: only called on an iterator whose next value is a Group
enum_len(iter) == count_calls(for_each_ident_in_group(Head(iter)), 0)

\* the output before the invocation, and the output of an invocation that
\* panicked: no text at all
Pending == [status |-> "pending"]
Panicked == [status |-> "panic"]

\* enum_size
enum_size(stream) ==
    LET id == enum_ident(stream)
    IN IF id.panic \/ ~next_is_group(id.iter) THEN Panicked
       ELSE [status |-> "ok", name |-> id.ident, SIZE |-> enum_len(id.iter)]

RECURSIVE index_arms_no_increment(_, _)
\* index_arms with "i += 1" left out
index_arms_no_increment(idents, i) ==
    IF idents = << >> THEN << >>
    ELSE << [index |-> i, variant |-> Head(idents).text] >>
         \o index_arms_no_increment(Tail(idents), i)

RECURSIVE index_arms(_, _)
\* the closure of enum_from_usize and enum_iter: one arm "{i} => {ident}" per
\* Ident, i counting from its initial value
index_arms(idents, i) ==
    IF idents = << >> THEN << >>
    ELSE << [index |-> i, variant |-> Head(idents).text] >>
         \o index_arms(Tail(idents), i + 1)

\* enum_from_usize
enum_from_usize(stream) ==
    LET id == enum_ident(stream)
    IN IF id.panic \/ ~next_is_group(id.iter) THEN Panicked
       ELSE [status |-> "ok", name |-> id.ident,
             arms |-> index_arms(for_each_ident_in_group(Head(id.iter)), 0)]

\* enum_iter
enum_iter(stream) ==
    LET id == enum_ident(stream)
    IN IF id.panic \/ ~next_is_group(id.iter) THEN Panicked
       ELSE [status |-> "ok", name |-> id.ident,
             enum_len |-> enum_len(id.iter),
             enum_match |-> index_arms(for_each_ident_in_group(Head(id.iter)), 0)]

-----------------------------------------------------------------------------
(* color_enum.                                                             *)

KwClear      == <<"c","l","e","a","r">>
KwExtensions == <<"e","x","t","e","n","s","i","o","n","s">>
KwGrid       == <<"g","r","i","d">>
KwEntities   == <<"e","n","t","i","t","i","e","s">>
KwUi         == <<"u","i">>
NoEndTag     == << >>

\* is_column looking for ';'
is_semicolon(stream) ==
    stream # << >> /\ Head(stream).kind = "Punct" /\ Head(stream).text = <<";">>

\* is_column: panics unless the next value of `stream` is the punctuation ':'
is_column(stream) ==
    stream # << >> /\ Head(stream).kind = "Punct" /\ Head(stream).text = <<":">>

RECURSIVE key_scan_no_lowercase(_)
\* key_scan with to_ascii_lowercase left out
key_scan_no_lowercase(chars) ==
    IF chars = << >> THEN << >>
    ELSE LET c == Head(chars)
         IN (IF is_uppercase(c) THEN << "_", c >> ELSE << c >>)
            \o key_scan_no_lowercase(Tail(chars))

RECURSIVE key_scan(_)
\* the loop of push_key_and_label over the characters after the first, for
\* key_func
key_scan(chars) ==
    IF chars = << >> THEN << >>
    ELSE LET c == Head(chars)
         IN (IF is_uppercase(c) THEN << "_", to_ascii_lowercase(c) >> ELSE << c >>)
            \o key_scan(Tail(chars))

RECURSIVE label_scan(_)
\* the same loop, for label_func
label_scan(chars) ==
    IF chars = << >> THEN << >>
    ELSE LET c == Head(chars)
         IN (IF is_uppercase(c) THEN << " ", c >> ELSE << c >>)
            \o label_scan(Tail(chars))

\* the string of the key arm of `item` (item is never empty: it is the text
\* of a token)
key_of(item) == << to_ascii_lowercase(Head(item)) >> \o key_scan(Tail(item))

\* the string of the label arm of `item`
label_of(item) == << Head(item) >> \o label_scan(Tail(item))

\* push_key_and_label without the arm of the label function
push_key_only(item, label_func, key_func) ==
    [label_func |-> label_func,
     key_func   |-> Append(key_func, [item |-> item, str |-> key_of(item)])]

\* push_key_and_label: one arm more in each function
push_key_and_label(item, label_func, key_func) ==
    [label_func |-> Append(label_func, [item |-> item, str |-> label_of(item)]),
     key_func   |-> Append(key_func,   [item |-> item, str |-> key_of(item)])]

ExtractPanic ==
    [panic |-> TRUE, stream |-> << >>, vec |-> << >>,
     label_func |-> << >>, key_func |-> << >>]

\* merge_alias with the alias given a slot of its own
merge_alias_own_slot(vec, alias) == Append(vec, << alias >>)

\* "last.push_str(&format!(" | Self::{item}"))": the alias joins the pattern of
\* the last entry of vec
merge_alias(vec, alias) == [vec EXCEPT ![Len(vec)] = Append(@, alias)]

RECURSIVE extract_loop(_, _, _, _, _)
\* the loop of extract.  An entry of vec is the list of the identifiers of
\* one pattern "Self::A | Self::B | ...".
extract_loop(stream, end_tag, vec, label_func, key_func) ==
    IF stream = << >>
    THEN [panic |-> FALSE, stream |-> stream, vec |-> vec,
          label_func |-> label_func, key_func |-> key_func]
    ELSE
    LET item == Head(stream)
        rest == Tail(stream)
    IN IF item.kind = "Punct"
       THEN CASE item.text = <<",">> ->
                   extract_loop(rest, end_tag, vec, label_func, key_func)
              [] item.text = <<"|">> ->
                   IF vec = << >> \/ rest = << >> THEN ExtractPanic
                   ELSE LET alias == to_string(Head(rest))
                            funcs == push_key_and_label(alias, label_func, key_func)
                        IN extract_loop(Tail(rest), end_tag,
                                        merge_alias(vec, alias),
                                        funcs.label_func, funcs.key_func)
              [] OTHER -> ExtractPanic
       ELSE IF to_string(item) = end_tag
       THEN IF is_column(rest)
            THEN [panic |-> FALSE, stream |-> Tail(rest), vec |-> vec,
                  label_func |-> label_func, key_func |-> key_func]
            ELSE ExtractPanic
       ELSE LET funcs == push_key_and_label(to_string(item), label_func, key_func)
            IN extract_loop(rest, end_tag, Append(vec, << to_string(item) >>),
                            funcs.label_func, funcs.key_func)

\* extract
extract(stream, end_tag, label_func, key_func) ==
    extract_loop(stream, end_tag, << >>, label_func, key_func)

\* f32 addition of the heights.  The heights are whole numbers; up to 2^24
\* their sum is exact, above it the sum is rounded to the nearest even number
\* (ties to the even mantissa), which is right below 2^25.
f32_add(a, b) ==
    LET x == a + b
    IN IF x <= 2^24 \/ x % 2 = 0 THEN x
       ELSE IF (x + 1) % 4 = 0 THEN x + 1 ELSE x - 1

RECURSIVE height_arms_no_step(_, _, _)
\* height_arms with "start_height += interval" left out
height_arms_no_step(start_height, interval, items) ==
    IF items = << >> THEN << >>
    ELSE << [pattern |-> Head(items), height |-> start_height] >>
         \o height_arms_no_step(start_height, interval, Tail(items))

RECURSIVE height_arms(_, _, _)
\* the loop of generate_height_func: "{item} => {start_height}f32" and
\* "start_height += interval"
height_arms(start_height, interval, items) ==
    IF items = << >> THEN << >>
    ELSE << [pattern |-> Head(items), height |-> start_height] >>
         \o height_arms(f32_add(start_height, interval), interval, Tail(items))

RECURSIVE final_height(_, _, _)
\* the value of start_height after the loop
final_height(start_height, interval, items) ==
    IF items = << >> THEN start_height
    ELSE final_height(f32_add(start_height, interval), interval, Tail(items))

\* generate_height_func: (height_func, start_height)
generate_height_func(start_height, interval, items) ==
    << height_arms(start_height, interval, items),
       final_height(start_height, interval, items) >>

\* the generated "match self { {item} => {start_height}f32, ...
\* _ => panic!("Invalid color: {self:?}") }" called on `color`
height_func(arms, color) ==
    IF \E j \in DOMAIN arms : color \in Range(arms[j].pattern)
    THEN [panic |-> FALSE,
          height |-> arms[CHOOSE j \in DOMAIN arms :
                            /\ color \in Range(arms[j].pattern)
                            /\ \A h \in 1..(j - 1) :
                                   color \notin Range(arms[h].pattern)].height]
    ELSE [panic |-> TRUE, height |-> 0]

\* line_start without the chaining to the entity pass
line_start_unchained(clip_height) == 1

\* the start of the line pass: "clip_height + 1f32"
line_start(clip_height) == f32_add(clip_height, 1)

\* square_hgl_start leaving room for one height only
square_hgl_start_one_above(thing_angle_height) == f32_add(thing_angle_height, 1)

\* the start of the square highlight pass: "thing_angle_height + 2f32"
square_hgl_start(thing_angle_height) == f32_add(thing_angle_height, 2)

\* single_section with the assertion on the keyword left out
single_section_any_keyword(stream, keyword, label_func, key_func) ==
    IF /\ Len(stream) >= 4
       /\ is_column(Tail(stream))
       /\ is_comma(stream[4])
    THEN LET value == to_string(stream[3])
             funcs == push_key_and_label(value, label_func, key_func)
         IN [panic |-> FALSE, stream |-> SubSeq(stream, 5, Len(stream)),
             value |-> value,
             label_func |-> funcs.label_func, key_func |-> funcs.key_func]
    ELSE [panic |-> TRUE, stream |-> << >>, value |-> << >>,
          label_func |-> << >>, key_func |-> << >>]

\* lines 545-549 and 551-556: "<keyword> : <value> ," with an arm for the
\* value in both functions
single_section(stream, keyword, label_func, key_func) ==
    IF /\ Len(stream) >= 4
       /\ to_string(stream[1]) = keyword
       /\ is_column(Tail(stream))
       /\ is_comma(stream[4])
    THEN LET value == to_string(stream[3])
             funcs == push_key_and_label(value, label_func, key_func)
         IN [panic |-> FALSE, stream |-> SubSeq(stream, 5, Len(stream)),
             value |-> value,
             label_func |-> funcs.label_func, key_func |-> funcs.key_func]
    ELSE [panic |-> TRUE, stream |-> << >>, value |-> << >>,
          label_func |-> << >>, key_func |-> << >>]

\* color_enum
color_enum(stream, interval) ==
    LET clear == single_section(stream, KwClear, << >>, << >>)
        extensions == single_section(clear.stream, KwExtensions,
                                     clear.label_func, clear.key_func)
        at_grid == extensions.stream
        grid == extract(Tail(Tail(at_grid)), KwEntities,
                        extensions.label_func, extensions.key_func)
        entities == extract(grid.stream, KwUi, grid.label_func, grid.key_func)
        ui == extract(entities.stream, NoEndTag,
                      entities.label_func, entities.key_func)
        entity == generate_height_func(1, f32_add(interval, 1), entities.vec)
        line == generate_height_func(
                    line_start(entity[2]), 1,
                    grid.vec \o << << extensions.value >> >> \o entities.vec \o ui.vec)
        square_hgl == generate_height_func(square_hgl_start(line[2]), 1, ui.vec)
    IN IF clear.panic THEN Panicked
       ELSE IF extensions.panic THEN Panicked
       ELSE IF ~(/\ at_grid # << >>
                 /\ to_string(Head(at_grid)) = KwGrid
                 /\ is_column(Tail(at_grid))) THEN Panicked
       ELSE IF grid.panic THEN Panicked
       ELSE IF entities.panic THEN Panicked
       ELSE IF ui.panic THEN Panicked
       ELSE [status |-> "ok",
             key_func |-> ui.key_func,
             label_func |-> ui.label_func,
             entity_height |-> entity[1],
             clip_height |-> entity[2],
             line_height |-> line[1],
             thing_angle_indicator_height |-> << line[2], f32_add(line[2], 1) >>,
             square_hgl_height |-> square_hgl[1]]

-----------------------------------------------------------------------------
(* bind_enum.                                                              *)

RECURSIVE bind_label_scan(_)
\* the loop of bind_enum over the characters after the first
bind_label_scan(chars) ==
    IF chars = << >> THEN << >>
    ELSE LET ch == Head(chars)
         IN (IF is_ascii_uppercase(ch) THEN << " ", ch >> ELSE << ch >>)
            \o bind_label_scan(Tail(chars))

\* the label of a bind
bind_label(ident) == << Head(ident) >> \o bind_label_scan(Tail(ident))

\* bind_key with the replacement of the spaces left out
bind_key_no_replace(ident) == str_to_ascii_lowercase(bind_label(ident))

\* the key of a bind: "value.to_ascii_lowercase().replace(' ', "_")"
bind_key(ident) == str_replace(str_to_ascii_lowercase(bind_label(ident)), " ", "_")

\* bind_enum: the macro input and the variants of the Tool enum of tool.rs
\* make one brace group; every Ident of it gets a label arm and a key arm
bind_enum(stream, file) ==
    IF ~file.found THEN Panicked
    ELSE LET binds == stream \o << Punct(",") >> \o file.tokens
             idents == for_each_ident_in_group(Group(binds))
         IN [status |-> "ok",
             binds |-> binds,
             label_func |-> [ i \in DOMAIN idents |->
                                [item |-> idents[i].text,
                                 str |-> bind_label(idents[i].text)] ],
             key_func |-> [ i \in DOMAIN idents |->
                              [item |-> idents[i].text,
                               str |-> bind_key(idents[i].text)] ]]

-----------------------------------------------------------------------------
(* str_array.                                                              *)

\* Option
None == [some |-> FALSE, value |-> << >>]
Some(v) == [some |-> TRUE, value |-> v]

Digits == << "0","1","2","3","4","5","6","7","8","9" >>

is_digit(c) == c \in Range(Digits)

digit_value(c) == (CHOOSE i \in DOMAIN Digits : Digits[i] = c) - 1

RECURSIVE parse_digits(_, _)
\* the digits of str::parse::<u16>, from the left: None on a character that
\* is no digit and on a value above u16::MAX
parse_digits(text, acc) ==
    IF text = << >> THEN Some(acc)
    ELSE IF ~is_digit(Head(text)) THEN None
    ELSE LET value == acc * 10 + digit_value(Head(text))
         IN IF value > 65535 THEN None ELSE parse_digits(Tail(text), value)

\* str::parse::<u16>: digits, after an optional '+'
parse_u16(text) ==
    LET digits == IF text # << >> /\ Head(text) = "+" THEN Tail(text) ELSE text
    IN IF digits = << >> THEN None ELSE parse_digits(digits, 0)

RECURSIVE u16_to_string(_)
\* the Display of an u16 (the "{i}" of the format string)
u16_to_string(i) ==
    IF i < 10 THEN << Digits[i + 1] >>
    ELSE u16_to_string(i \div 10) \o << Digits[(i % 10) + 1] >>

\* str_array_elements with the range 0..amount taken from 1
str_array_elements_from_one(prefix, amount) ==
    [ j \in 1..amount |-> prefix \o u16_to_string(j) ]

\* "for i in 0..amount { "{prefix}{i}", }"
str_array_elements(prefix, amount) ==
    [ j \in 1..amount |-> prefix \o u16_to_string(j - 1) ]

\* str_array
str_array(stream) ==
    IF Len(stream) < 3 \/ ~is_comma(stream[2]) THEN Panicked
    ELSE LET ident == to_string(stream[1])
             amount == parse_u16(to_string(stream[3]))
         IN IF ~amount.some THEN Panicked
            ELSE IF Len(stream) > 3 /\ ~(is_comma(stream[4]) /\ Len(stream) = 5)
            THEN Panicked
            ELSE LET prefix == IF Len(stream) > 3 THEN to_string(stream[5]) ELSE << >>
                 IN [status |-> "ok",
                     ident |-> ident,
                     amount |-> amount.value,
                     elements |-> str_array_elements(prefix, amount.value)]

-----------------------------------------------------------------------------
(* The code generated for a plain enum, as it runs.                        *)

\* "match value { {i} => {enum_ident}::{ident}, ... _ => unreachable!() }":
\* the first arm whose index is `value`, and a panic when there is none
from_usize(arms, value) ==
    IF \E j \in DOMAIN arms : arms[j].index = value
    THEN [panic |-> FALSE,
          variant |-> arms[CHOOSE j \in DOMAIN arms :
                               /\ arms[j].index = value
                               /\ \A h \in 1..(j - 1) : arms[h].index # value].variant]
    ELSE [panic |-> TRUE, variant |-> << >>]

\* "match self.0 { {i} => Some({enum_ident}::{ident}), ... _ => None }"
match_self_0(enum_match, f0) ==
    IF \E j \in DOMAIN enum_match : enum_match[j].index = f0
    THEN Some(enum_match[CHOOSE j \in DOMAIN enum_match :
                             /\ enum_match[j].index = f0
                             /\ \A h \in 1..(j - 1) : enum_match[h].index # f0].variant)
    ELSE None

NotBuilt == [live |-> FALSE, f0 |-> 0, f1 |-> 0]

\* "EnumIterator(0, {enum_len})"
EnumIterator(f0, f1) == [live |-> TRUE, f0 |-> f0, f1 |-> f1]

\* advance with "self.0 += 1" left out
advance_stuck(self) == self

\* "self.0 += 1"
advance(self) == [self EXCEPT !.f0 = self.f0 + 1]

\* "fn len(&self) -> usize { self.1 - self.0 }": an usize subtraction.  When
\* self.0 > self.1 it overflows: a panic in a build with overflow checks, and
\* otherwise the wrapped value 2^64 - (self.0 - self.1), kept here as the
\* distance below 2^64.
EnumIterator_len(self) ==
    IF self.f0 <= self.f1
    THEN [kind |-> "value", n |-> self.f1 - self.f0]
    ELSE IF overflow_checks
         THEN [kind |-> "panic", n |-> 0]
         ELSE [kind |-> "wrapped", n |-> self.f0 - self.f1]

-----------------------------------------------------------------------------
(* Inputs: declarations of plain enums.                                    *)

\* what bind_enum finds at src/map/editor/state/core/tool.rs
NoFile == [found |-> FALSE, tokens |-> << >>]

Iterators == {1, 2}

VariantNames == { << UpperSeq[i] >> : i \in 1..MaxVariants }

InjectiveSeqs(S, n) ==
    { s \in UNION { [1..m -> S] : m \in 0..n } :
        \A i, j \in DOMAIN s : i # j => s[i] # s[j] }

Shapes == << "unit", "tuple", "attribute", "discriminant" >>

\* the tokens of one variant of an enum body, the separating comma included
VariantTokens(name, shape) ==
    CASE shape = "unit" -> << Ident(name), Punct(",") >>
      [] shape = "tuple" ->
            << Ident(name), Group(<< Ident(<<"u","8">>) >>), Punct(",") >>
      [] shape = "attribute" ->
            << Punct("#"), Group(<< Ident(<<"d","e","f","a","u","l","t">>) >>),
               Ident(name), Punct(",") >>
      [] shape = "discriminant" ->
            << Ident(name), Punct("="), Literal(<<"7">>), Punct(",") >>

RECURSIVE BodyTokens(_, _)
\* the i-th variant takes the shape first + i (cyclically)
BodyTokens(names, first) ==
    IF names = << >> THEN << >>
    ELSE VariantTokens(Head(names), Shapes[(first % Len(Shapes)) + 1])
         \o BodyTokens(Tail(names), first + 1)

EnumName == <<"T","o","o","l">>

Headers ==
    { << Ident(KwEnum), Ident(EnumName) >>,
      << Punct("#"), Group(<< Ident(<<"d","e","r","i","v","e">>),
                              Group(<< Ident(<<"E","n","u","m","S","i","z","e">>) >>) >>),
         Ident(<<"p","u","b">>), Ident(KwEnum), Ident(EnumName) >> }

EnumDeclarations ==
    { h \o << Group(BodyTokens(names, first)) >> :
        h \in Headers,
        names \in InjectiveSeqs(VariantNames, MaxVariants),
        first \in 0..(Len(Shapes) - 1) }

\* token streams that are not the declaration of an enum
NotEnums ==
    LET body == Group(BodyTokens(<< <<"A">>, <<"B">> >>, 0))
    IN { << >>,
         << Ident(<<"s","t","r","u","c","t">>), Ident(EnumName), body >>,
         << Ident(KwEnum) >>,
         << Ident(KwEnum), body >>,
         << Ident(KwEnum), Ident(EnumName) >>,
         << Ident(KwEnum), Ident(EnumName), Punct(";") >>,
         << Punct("#"), Group(<< Ident(KwEnum), Ident(EnumName), body >>),
            Ident(<<"s","t","r","u","c","t">>), Ident(EnumName), body >> }

-----------------------------------------------------------------------------
(* Inputs: the sectioned descriptions given to color_enum.                 *)

RECURSIVE AliasTokens(_)
AliasTokens(aliases) ==
    IF aliases = << >> THEN << >>
    ELSE << Punct("|"), Ident(Head(aliases)) >> \o AliasTokens(Tail(aliases))

\* an entry is a primary identifier followed by its aliases
EntryTokens(entry) == << Ident(Head(entry)) >> \o AliasTokens(Tail(entry))

RECURSIVE EntriesTokens(_)
\* every entry is followed by a comma
EntriesTokens(entries) ==
    IF entries = << >> THEN << >>
    ELSE EntryTokens(Head(entries)) \o << Punct(",") >>
         \o EntriesTokens(Tail(entries))

SectionTokens(section) ==
    << Ident(section.keyword), Punct(":") >> \o EntriesTokens(section.entries)

RECURSIVE SectionsTokens(_)
SectionsTokens(sections) ==
    IF sections = << >> THEN << >>
    ELSE SectionTokens(Head(sections)) \o SectionsTokens(Tail(sections))

Section(keyword, entries) == [keyword |-> keyword, entries |-> entries]

\* the i-th identifier of a section: a capital letter and a small one
EntryName(capital, i) == << capital, LowerSeq[i] >>

\* n entries, the one at position aliased (if any) with an alias
Entries(capital, n, aliased) ==
    [ i \in 1..n |->
        IF i = aliased
        THEN << EntryName(capital, i), EntryName(capital, i) \o <<"X">> >>
        ELSE << EntryName(capital, i) >> ]

ClearName == <<"C","l","e","a","r">>
ExtensionsName == <<"E","x","t">>

\* the sections in the required order, with g, e and u entries in the list
\* sections and an alias on the aliased-th of these entries (0: none)
OrderedInput(g, e, u, aliased) ==
    SectionsTokens(<<
        Section(KwClear, << << ClearName >> >>),
        Section(KwExtensions, << << ExtensionsName >> >>),
        Section(KwGrid, Entries("G", g, aliased)),
        Section(KwEntities, Entries("N", e, aliased - g)),
        Section(KwUi, Entries("U", u, aliased - g - e)) >>)

OrderedInputs ==
    { OrderedInput(g, e, u, aliased) :
        g \in 0..MaxSection, e \in 0..MaxSection, u \in 0..MaxSection,
        aliased \in 0..(3 * MaxSection) }

Keywords == { KwClear, KwExtensions, KwGrid, KwEntities, KwUi }

\* one entry per section, named after the section
KeywordSection(keyword) ==
    Section(keyword, << << << "V" >> \o keyword >> >>)

\* the sections in any order, and with any of them left out
KeywordOrderInputs ==
    { SectionsTokens([ i \in DOMAIN order |-> KeywordSection(order[i]) ]) :
        order \in InjectiveSeqs(Keywords, Cardinality(Keywords)) }

IdAlphabet == { "A", "B", "a", "b" }

\* the identifiers of letters, of length 1 to n
Identifiers(n) == UNION { [1..m -> IdAlphabet] : m \in 1..n }

MoveThing == <<"M","o","v","e","T","h","i","n","g">>

\* the required sections, with `id` as the colour of the clear section
IdentifierInputs ==
    { SectionsTokens(<<
          Section(KwClear, << << id >> >>),
          Section(KwExtensions, << << ExtensionsName >> >>),
          Section(KwGrid, Entries("G", 1, 0)),
          Section(KwEntities, Entries("N", 1, 0)),
          Section(KwUi, Entries("U", 1, 0)) >>) :
        id \in Identifiers(MaxIdLen) \cup { MoveThing } }

\* the required sections, with the alias entry "a | b" between two entities
AliasInputs ==
    { SectionsTokens(<<
          Section(KwClear, << << ClearName >> >>),
          Section(KwExtensions, << << ExtensionsName >> >>),
          Section(KwGrid, Entries("G", 1, 0)),
          Section(KwEntities,
                  << << EntryName("N", 1) >>, << a, b >>, << EntryName("N", 2) >> >>),
          Section(KwUi, Entries("U", 1, 0)) >>) :
        a \in Identifiers(MaxAliasLen), b \in Identifiers(MaxAliasLen) }

\* the sections in the required order, with c identifiers after clear and x
\* after extensions, the aliased-th of each (if any) with an alias
ClearExtensionsInputs ==
    { SectionsTokens(<<
          Section(KwClear, Entries("C", c, ca)),
          Section(KwExtensions, Entries("E", x, xa)),
          Section(KwGrid, Entries("G", 1, 0)),
          Section(KwEntities, Entries("N", 1, 0)),
          Section(KwUi, Entries("U", 1, 0)) >>) :
        c \in 1..MaxSection, ca \in 0..1, x \in 1..MaxSection, xa \in 0..1 }

InitColorEnum ==
    /\ macro = "color_enum"
    /\ \/ /\ input \in OrderedInputs
          /\ textures_interval \in 0..MaxTexturesInterval
       \/ /\ input \in KeywordOrderInputs \cup IdentifierInputs \cup AliasInputs
                       \cup ClearExtensionsInputs
          /\ textures_interval = 0
    /\ tool_rs = NoFile
    /\ overflow_checks = FALSE
    /\ output = Pending
    /\ iters = [k \in Iterators |-> NotBuilt]
    /\ yielded = [k \in Iterators |-> << >>]
    /\ converted = [called |-> FALSE]

ToolFiles ==
    { NoFile,
      [found |-> TRUE,
       tokens |-> << Ident(<<"S","q","u","a","r","e">>), Punct(","),
                     Punct("#"), Group(<< Ident(<<"d","o","c">>) >>),
                     Ident(<<"F","r","e","e","D","r","a","w">>), Punct(",") >>] }

\* the binds given to bind_enum: one or two identifiers
BindInputs ==
    { << Ident(id) >> : id \in Identifiers(MaxIdLen) \cup { MoveThing } }
    \cup { << Ident(MoveThing), Punct(","), Ident(id) >> : id \in Identifiers(1) }

InitBindEnum ==
    /\ macro = "bind_enum"
    /\ input \in BindInputs
    /\ textures_interval = 0
    /\ tool_rs \in ToolFiles
    /\ overflow_checks = FALSE
    /\ output = Pending
    /\ iters = [k \in Iterators |-> NotBuilt]
    /\ yielded = [k \in Iterators |-> << >>]
    /\ converted = [called |-> FALSE]

\* the text of the literal n, for n below 100
AmountLiteral(n) ==
    Literal(IF n < 10 THEN << Digits[n + 1] >>
            ELSE << Digits[(n \div 10) + 1], Digits[(n % 10) + 1] >>)

ArrayName == <<"A","R","R","A","Y">>

Prefixes == { <<"i","_">>, <<"p">> }

\* (ARRAY, n) and (ARRAY, n, prefix)
StrArrayInputs ==
    { << Ident(ArrayName), Punct(","), AmountLiteral(n) >> : n \in 0..MaxAmount }
    \cup { << Ident(ArrayName), Punct(","), AmountLiteral(n), Punct(","), Ident(p) >> :
             n \in 0..MaxAmount, p \in Prefixes }

\* inputs that are not properly formatted
NotStrArrayInputs ==
    { << >>,
      << Ident(ArrayName) >>,
      << Ident(ArrayName), Punct(";"), AmountLiteral(4) >>,
      << Ident(ArrayName), Punct(","), Ident(<<"n">>) >>,
      << Ident(ArrayName), Punct(","), Literal(<<"4","u","1","6">>) >>,
      << Ident(ArrayName), Punct(","), Literal(<<"6","5","5","3","6">>) >>,
      << Ident(ArrayName), Punct(","), AmountLiteral(4), Punct(",") >>,
      << Ident(ArrayName), Punct(","), AmountLiteral(4), Ident(<<"i","_">>) >>,
      << Ident(ArrayName), Punct(","), AmountLiteral(4), Punct(","),
         Ident(<<"i","_">>), Punct(",") >> }

InitStrArray ==
    /\ macro = "str_array"
    /\ input \in StrArrayInputs \cup NotStrArrayInputs
    /\ textures_interval = 0
    /\ tool_rs = NoFile
    /\ overflow_checks = FALSE
    /\ output = Pending
    /\ iters = [k \in Iterators |-> NotBuilt]
    /\ yielded = [k \in Iterators |-> << >>]
    /\ converted = [called |-> FALSE]

DeriveMacros == { "EnumSize", "EnumFromUsize", "EnumIter" }

InitDerive ==
    /\ macro \in DeriveMacros
    /\ input \in EnumDeclarations \cup NotEnums
    /\ textures_interval = 0
    /\ tool_rs = NoFile
    /\ overflow_checks \in (IF macro = "EnumIter" THEN BOOLEAN ELSE {FALSE})
    /\ output = Pending
    /\ iters = [k \in Iterators |-> NotBuilt]
    /\ yielded = [k \in Iterators |-> << >>]
    /\ converted = [called |-> FALSE]

-----------------------------------------------------------------------------
(* Actions.                                                                *)

\* #[proc_macro_derive(EnumSize)]
EnumSize ==
    /\ macro = "EnumSize"
    /\ output = Pending
    /\ output' = enum_size(input)
    /\ UNCHANGED << macro, input, textures_interval, tool_rs, overflow_checks,
                    iters, yielded, converted >>

\* #[proc_macro_derive(EnumFromUsize)]
EnumFromUsize ==
    /\ macro = "EnumFromUsize"
    /\ output = Pending
    /\ output' = enum_from_usize(input)
    /\ UNCHANGED << macro, input, textures_interval, tool_rs, overflow_checks,
                    iters, yielded, converted >>

\* #[proc_macro_derive(EnumIter)]
EnumIter ==
    /\ macro = "EnumIter"
    /\ output = Pending
    /\ output' = enum_iter(input)
    /\ UNCHANGED << macro, input, textures_interval, tool_rs, overflow_checks,
                    iters, yielded, converted >>

\* a call of the generated From<usize>::from
from(value) ==
    /\ macro = "EnumFromUsize"
    /\ output.status = "ok"
    /\ converted' = [called |-> TRUE, value |-> value,
                     result |-> from_usize(output.arms, value)]
    /\ UNCHANGED << macro, input, textures_interval, tool_rs, overflow_checks,
                    output, iters, yielded >>

\* a call of the generated iter(): a fresh EnumIterator
iter(k) ==
    /\ macro = "EnumIter"
    /\ output.status = "ok"
    /\ iters' = [iters EXCEPT ![k] = EnumIterator(0, output.enum_len)]
    /\ yielded' = [yielded EXCEPT ![k] = << >>]
    /\ UNCHANGED << macro, input, textures_interval, tool_rs, overflow_checks,
                    output, converted >>

\* a call of the generated EnumIterator::next
next(k) ==
    /\ macro = "EnumIter"
    /\ output.status = "ok"
    /\ iters[k].live
    /\ iters[k].f0 < output.enum_len + MaxExtraCalls
    /\ yielded' = [yielded EXCEPT
                     ![k] = Append(@, match_self_0(output.enum_match, iters[k].f0))]
    /\ iters' = [iters EXCEPT ![k] = advance(@)]
    /\ UNCHANGED << macro, input, textures_interval, tool_rs, overflow_checks,
                    output, converted >>

\* color_enum!
ColorEnum ==
    /\ macro = "color_enum"
    /\ output = Pending
    /\ output' = color_enum(input, textures_interval)
    /\ UNCHANGED << macro, input, textures_interval, tool_rs, overflow_checks,
                    iters, yielded, converted >>

\* bind_enum!
BindEnum ==
    /\ macro = "bind_enum"
    /\ output = Pending
    /\ output' = bind_enum(input, tool_rs)
    /\ UNCHANGED << macro, input, textures_interval, tool_rs, overflow_checks,
                    iters, yielded, converted >>

\* str_array!
StrArray ==
    /\ macro = "str_array"
    /\ output = Pending
    /\ output' = str_array(input)
    /\ UNCHANGED << macro, input, textures_interval, tool_rs, overflow_checks,
                    iters, yielded, converted >>

Init == InitDerive \/ InitColorEnum \/ InitBindEnum \/ InitStrArray

Next ==
    \/ EnumSize
    \/ EnumFromUsize
    \/ EnumIter
    \/ ColorEnum
    \/ BindEnum
    \/ StrArray
    \/ \E value \in 0..(MaxVariants + MaxExtraCalls) : from(value)
    \/ \E k \in Iterators : iter(k)
    \/ \E k \in Iterators : next(k)

Spec == Init /\ [][Next]_vars

-----------------------------------------------------------------------------
(* What a declaration declares, read off the input independently of the    *)
(* macros: the group after "enum <Name>" and its immediate Ident children. *)

EnumAt(ts) == { p \in DOMAIN ts : ts[p] = Ident(KwEnum) }

IsEnumDeclaration(ts) ==
    /\ EnumAt(ts) # {}
    /\ LET p == CHOOSE p \in EnumAt(ts) : \A q \in EnumAt(ts) : p <= q
       IN /\ p + 2 <= Len(ts)
          /\ ts[p + 1].kind = "Ident"
          /\ ts[p + 2].kind = "Group"

DeclaredBody(ts) ==
    ts[(CHOOSE p \in EnumAt(ts) : \A q \in EnumAt(ts) : p <= q) + 2].stream

IdentPositions(body) == { i \in DOMAIN body : body[i].kind = "Ident" }

\* the variants in declaration order
DeclaredVariants(body) ==
    LET pos == IdentPositions(body)
    IN [ j \in 1..Cardinality(pos) |->
           body[CHOOSE p \in pos : Cardinality({ q \in pos : q < p }) = j - 1].text ]

\* the declared index (from 0) of a variant
DeclaredIndex(body, v) ==
    (CHOOSE j \in DOMAIN DeclaredVariants(body) : DeclaredVariants(body)[j] = v) - 1

Expanded(m) == macro = m /\ output # Pending

-----------------------------------------------------------------------------
(* Claims.                                                                 *)

\* C1: for the declaration of a plain enum, enum_size succeeds and the SIZE it
\* emits is the number of Ident tokens that are immediate children of the
\* group, which is the number N of distinct variants (N = 0 included).
C1_SizeIsVariantCount ==
    (Expanded("EnumSize") /\ IsEnumDeclaration(input)) =>
        /\ output.status = "ok"
        /\ output.SIZE = Cardinality(IdentPositions(DeclaredBody(input)))
        /\ output.SIZE =
             Cardinality({ DeclaredBody(input)[i].text :
                             i \in IdentPositions(DeclaredBody(input)) })

\* C1 witness: a SIZE of at least 2 for a body that also holds punctuation and
\* a nested group with an Ident of its own.
C1_Witness ==
    /\ Expanded("EnumSize")
    /\ output.status = "ok"
    /\ output.SIZE >= 2
    /\ \E i \in DOMAIN DeclaredBody(input) :
          /\ DeclaredBody(input)[i].kind = "Group"
          /\ DeclaredBody(input)[i].stream # << >>

\* C2: the generated from(i) returns the i-th declared variant for i < N
\* (whose declared index is i again), and panics for every i >= N.
C2_FromUsizeRoundTrip ==
    (macro = "EnumFromUsize" /\ converted.called) =>
        LET body == DeclaredBody(input)
            vs == DeclaredVariants(body)
            i == converted.value
        IN IF i < Len(vs)
           THEN /\ ~converted.result.panic
                /\ converted.result.variant = vs[i + 1]
                /\ DeclaredIndex(body, converted.result.variant) = i
           ELSE converted.result.panic

\* C2 witness: a conversion of the last index of an enum of three variants.
C2_Witness ==
    /\ macro = "EnumFromUsize"
    /\ converted.called
    /\ converted.value = 2
    /\ Len(DeclaredVariants(DeclaredBody(input))) = 3
    /\ ~converted.result.panic

\* C3: whatever the interleaving of the calls, every EnumIterator built by
\* iter() has returned the declared variants in declaration order from the
\* first one on, one per call of next(), and None from the N+1-th call on.
C3_IterYieldsDeclaredOrder ==
    (macro = "EnumIter" /\ output.status = "ok") =>
        LET vs == DeclaredVariants(DeclaredBody(input))
        IN \A k \in Iterators :
             /\ ~iters[k].live => yielded[k] = << >>
             /\ \A j \in DOMAIN yielded[k] :
                  yielded[k][j] = IF j <= Len(vs) THEN Some(vs[j]) ELSE None

\* C3 witness: one iterator is exhausted (its last call returned None) while
\* the other one has returned only the first variant.
C3_Witness ==
    /\ macro = "EnumIter"
    /\ output.status = "ok"
    /\ output.enum_len >= 2
    /\ Len(yielded[1]) = output.enum_len + 1
    /\ yielded[1][Len(yielded[1])] = None
    /\ Len(yielded[2]) = 1
    /\ yielded[2][1].some

\* the values (not None) an iterator has produced
Produced(k) == Cardinality({ j \in DOMAIN yielded[k] : yielded[k][j].some })

\* C4: len() is the number of variants minus the number of values produced so
\* far, also after calls of next() on the exhausted iterator.
C4_LenIsRemaining ==
    (macro = "EnumIter" /\ output.status = "ok") =>
        \A k \in Iterators :
            iters[k].live =>
                EnumIterator_len(iters[k]) =
                    [kind |-> "value",
                     n |-> Len(DeclaredVariants(DeclaredBody(input))) - Produced(k)]

-----------------------------------------------------------------------------
(* What a sectioned description declares, read off the input independently *)
(* of color_enum: the section keywords (an Ident of the vocabulary followed *)
(* by ':'), and the entries between a keyword and the next one.            *)

RequiredOrder == << KwClear, KwExtensions, KwGrid, KwEntities, KwUi >>

KeywordAt(ts) ==
    { p \in DOMAIN ts :
        /\ ts[p].kind = "Ident"
        /\ ts[p].text \in Keywords
        /\ p < Len(ts)
        /\ ts[p + 1] = Punct(":") }

\* the keywords in the order of their appearance
KeywordSequence(ts) ==
    LET at == KeywordAt(ts)
    IN [ j \in 1..Cardinality(at) |->
           ts[CHOOSE p \in at : Cardinality({ q \in at : q < p }) = j - 1].text ]

\* the positions of the primary identifiers of the section of `keyword`
DeclaredPrimaries(ts, keyword) ==
    LET at == { p \in KeywordAt(ts) : ts[p].text = keyword }
    IN IF at = {} THEN {}
       ELSE LET p == CHOOSE p \in at : \A q \in at : p <= q
                later == { q \in KeywordAt(ts) : q > p }
                end == IF later = {} THEN Len(ts) + 1
                       ELSE CHOOSE q \in later : \A r \in later : q <= r
            IN { i \in (p + 2)..(end - 1) :
                   ts[i].kind = "Ident" /\ ts[i - 1] # Punct("|") }

RECURSIVE AliasesFrom(_, _)
\* the aliases attached to the identifier at position i
AliasesFrom(ts, i) ==
    IF i + 2 <= Len(ts) /\ ts[i + 1] = Punct("|")
    THEN << ts[i + 2].text >> \o AliasesFrom(ts, i + 2)
    ELSE << >>

\* the entries of a section in declaration order, each the primary followed
\* by its aliases
DeclaredEntries(ts, keyword) ==
    LET pos == DeclaredPrimaries(ts, keyword)
    IN [ j \in 1..Cardinality(pos) |->
           LET i == CHOOSE p \in pos : Cardinality({ q \in pos : q < p }) = j - 1
           IN << ts[i].text >> \o AliasesFrom(ts, i) ]

\* the entries the line pass runs over
DeclaredLineEntries(ts) ==
    DeclaredEntries(ts, KwGrid) \o DeclaredEntries(ts, KwExtensions)
    \o DeclaredEntries(ts, KwEntities) \o DeclaredEntries(ts, KwUi)

ColorOk == macro = "color_enum" /\ output.status = "ok"

Heights(arms) == { arms[i].height : i \in DOMAIN arms }

\* one pass: the i-th entry (from 0) has the height start + i * interval
PassIs(arms, start, interval, entries) ==
    /\ Len(arms) = Len(entries)
    /\ \A i \in DOMAIN arms :
         /\ arms[i].pattern = entries[i]
         /\ arms[i].height = start + (i - 1) * interval
         /\ i > 1 => /\ arms[i].height - arms[i - 1].height = interval
                     /\ interval > 0 => arms[i].height > arms[i - 1].height

\* C5: in each of the three passes the i-th entry in declaration order gets
\* start + i * interval, and the start handed on is start + count * interval.
C5_HeightsWithinPass ==
    ColorOk =>
        LET interval == textures_interval + 1
            entities == DeclaredEntries(input, KwEntities)
            lines == DeclaredLineEntries(input)
        IN /\ PassIs(output.entity_height, 1, interval, entities)
           /\ output.clip_height = 1 + Len(entities) * interval
           /\ PassIs(output.line_height, output.clip_height + 1, 1, lines)
           /\ output.thing_angle_indicator_height[1] =
                output.clip_height + 1 + Len(lines)
           /\ PassIs(output.square_hgl_height,
                     output.thing_angle_indicator_height[1] + 2, 1,
                     DeclaredEntries(input, KwUi))

\* C5 witness: an entity pass with an interval above 1 over two entities, and
\* a square highlight pass over two colours.
C5_Witness ==
    /\ ColorOk
    /\ textures_interval >= 1
    /\ Len(output.entity_height) >= 2
    /\ Len(output.square_hgl_height) >= 2

\* C6: a pass starts at or above the start handed on by the pass before it,
\* every height of a later pass is above every height of an earlier one, no
\* two heights are equal, and sizes [2, 3] with interval 1 from 1 give the
\* heights 1, 2 and 4, 5, 6.
C6_HeightsAcrossPasses ==
    ColorOk =>
        LET entity == output.entity_height
            line == output.line_height
            square == output.square_hgl_height
        IN /\ line # << >>
           /\ line[1].height >= output.clip_height
           /\ square # << >> =>
                square[1].height >= output.thing_angle_indicator_height[1]
           /\ \A a \in Heights(entity), b \in Heights(line) : a < b
           /\ \A a \in Heights(entity) \cup Heights(line), b \in Heights(square) : a < b
           /\ Cardinality(Heights(entity) \cup Heights(line) \cup Heights(square))
                = Len(entity) + Len(line) + Len(square)
           /\ (textures_interval = 0 /\ Len(entity) = 2 /\ Len(line) = 3) =>
                /\ [ i \in 1..2 |-> entity[i].height ] = << 1, 2 >>
                /\ [ i \in 1..3 |-> line[i].height ] = << 4, 5, 6 >>

\* C6 witness: the passes of sizes 2 and 3 with interval 1.
C6_Witness ==
    /\ ColorOk
    /\ textures_interval = 0
    /\ Len(output.entity_height) = 2
    /\ Len(output.line_height) = 3

-----------------------------------------------------------------------------
(* Alias entries.                                                          *)

AliasMarks(ts) == { p \in DOMAIN ts : ts[p] = Punct("|") /\ 1 < p /\ p < Len(ts) }

HasArm(func, item) == \E i \in DOMAIN func : func[i].item = item

ArmStr(func, item) ==
    func[CHOOSE i \in DOMAIN func :
           /\ func[i].item = item
           /\ \A h \in 1..(i - 1) : func[h].item # item].str

\* in one pass: the pair a | b has one slot, and the entry after it is one
\* interval above it
PairSlot(arms, a, b, interval) ==
    \A i \in DOMAIN arms :
        (a \in Range(arms[i].pattern) \/ b \in Range(arms[i].pattern)) =>
            /\ arms[i].pattern = << a, b >>
            /\ \A j \in DOMAIN arms \ {i} :
                   a \notin Range(arms[j].pattern) /\ b \notin Range(arms[j].pattern)
            /\ i < Len(arms) => arms[i + 1].height = arms[i].height + interval

\* both identifiers of the pair have a label arm and a key arm, the lists
\* have one slot per primary, and the pair shares one slot in every pass
PairArmsAndSlots(a, b) ==
    /\ HasArm(output.label_func, a) /\ HasArm(output.label_func, b)
    /\ HasArm(output.key_func, a) /\ HasArm(output.key_func, b)
    /\ Len(output.entity_height) = Cardinality(DeclaredPrimaries(input, KwEntities))
    /\ Len(output.square_hgl_height) = Cardinality(DeclaredPrimaries(input, KwUi))
    /\ Len(output.line_height) =
         Cardinality(DeclaredPrimaries(input, KwGrid)) + 1
         + Cardinality(DeclaredPrimaries(input, KwEntities))
         + Cardinality(DeclaredPrimaries(input, KwUi))
    /\ PairSlot(output.entity_height, a, b, textures_interval + 1)
    /\ PairSlot(output.line_height, a, b, 1)
    /\ PairSlot(output.square_hgl_height, a, b, 1)
    /\ \E i \in DOMAIN output.line_height : output.line_height[i].pattern = << a, b >>

\* `id` with its first character in lower case
LowerFirst(id) == [id EXCEPT ![1] = to_ascii_lowercase(id[1])]

\* C7 as stated: for an alias entry a | b both identifiers get a label arm and
\* a key arm, with distinct label strings and distinct key strings when a and
\* b differ, and the pair has one slot, the next entry one interval above it.
C7_AliasDistinctStrings ==
    ColorOk =>
        \A p \in AliasMarks(input) :
            LET a == input[p - 1].text
                b == input[p + 1].text
            IN /\ PairArmsAndSlots(a, b)
               /\ a # b => /\ ArmStr(output.label_func, a) # ArmStr(output.label_func, b)
                           /\ ArmStr(output.key_func, a) # ArmStr(output.key_func, b)

\* C7 amended: as above, but the key strings are distinct exactly when a and
\* b differ somewhere else than in the case of their first character.
C7_AliasOneSlot ==
    ColorOk =>
        \A p \in AliasMarks(input) :
            LET a == input[p - 1].text
                b == input[p + 1].text
            IN /\ PairArmsAndSlots(a, b)
               /\ a # b => ArmStr(output.label_func, a) # ArmStr(output.label_func, b)
               /\ (ArmStr(output.key_func, a) # ArmStr(output.key_func, b))
                    <=> (LowerFirst(a) # LowerFirst(b))

\* C7 witness: an alias pair of two different identifiers between two
\* entities.
C7_Witness ==
    /\ ColorOk
    /\ Len(output.entity_height) = 3
    /\ Len(output.entity_height[2].pattern) = 2
    /\ output.entity_height[2].pattern[1] # output.entity_height[2].pattern[2]
    /\ output.entity_height[3].height =
         output.entity_height[2].height + textures_interval + 1

-----------------------------------------------------------------------------
(* Rejected inputs.                                                        *)

IsPermutation(order) ==
    Len(order) = Cardinality(Keywords) /\ Range(order) = Keywords

\* C8: when the five keywords appear in another order than the required one,
\* color_enum panics and returns no text.
C8_OutOfOrderPanics ==
    ( /\ Expanded("color_enum")
      /\ IsPermutation(KeywordSequence(input))
      /\ KeywordSequence(input) # RequiredOrder ) => output = Panicked

\* C8 witness: only the last two sections are exchanged.
C8_Witness ==
    /\ Expanded("color_enum")
    /\ KeywordSequence(input) = << KwClear, KwExtensions, KwGrid, KwUi, KwEntities >>
    /\ output = Panicked

\* C9: when one of the five keywords never appears, color_enum panics and
\* returns no text.
C9_MissingKeywordPanics ==
    ( /\ Expanded("color_enum")
      /\ \E keyword \in Keywords : keyword \notin Range(KeywordSequence(input)) )
        => output = Panicked

-----------------------------------------------------------------------------
(* The case transforms.                                                    *)

IsLetter(c) == c \in Range(UpperSeq) \cup Range(LowerSeq)

LettersOnly(id) == id # << >> /\ \A i \in DOMAIN id : IsLetter(id[i])

\* the position in label(id) and key(id) of the i-th character of id: one
\* separator more for every uppercase character after the first up to it
PositionOf(id, i) == i + Cardinality({ j \in 2..i : id[j] \in Range(UpperSeq) })

\* s is id with `separator` before each uppercase character after the first,
\* and (if lower) everything in lower case
IsSeparated(s, id, separator, lower) ==
    /\ Len(s) = PositionOf(id, Len(id))
    /\ \A i \in DOMAIN id :
         /\ s[PositionOf(id, i)] = IF lower THEN to_ascii_lowercase(id[i]) ELSE id[i]
         /\ (i > 1 /\ id[i] \in Range(UpperSeq)) => s[PositionOf(id, i) - 1] = separator

-----------------------------------------------------------------------------
(* Extraction of the enum.                                                 *)

\* C12: a derive macro panics and returns no text when no top-level Ident
\* "enum" occurs, when the token after the first one is not an Ident, and
\* when the token after that name is not a Group; otherwise it succeeds and
\* the enum name is the Ident right after the first "enum".
C12_EnumExtraction ==
    (macro \in DeriveMacros /\ output # Pending) =>
        IF EnumAt(input) = {}
        THEN output = Panicked
        ELSE LET p == CHOOSE p \in EnumAt(input) : \A q \in EnumAt(input) : p <= q
             IN IF p + 1 > Len(input) \/ input[p + 1].kind # "Ident"
                THEN output = Panicked
                ELSE IF p + 2 > Len(input) \/ input[p + 2].kind # "Group"
                THEN output = Panicked
                ELSE output.status = "ok" /\ output.name = input[p + 1].text

\* C12 witness: a declaration of a struct, whose only "enum" is inside a
\* group, has been rejected.
C12_Witness ==
    /\ macro \in DeriveMacros
    /\ output = Panicked
    /\ input # << >>
    /\ EnumAt(input) = {}
    /\ \E i \in DOMAIN input :
          input[i].kind = "Group" /\ EnumAt(input[i].stream) # {}

-----------------------------------------------------------------------------
(* str_array.                                                              *)

RECURSIVE NumberOf(_)
\* the number a text of digits stands for, from the right
NumberOf(text) ==
    IF text = << >> THEN 0
    ELSE (CHOOSE d \in 0..9 : Digits[d + 1] = text[Len(text)])
         + 10 * NumberOf(SubSeq(text, 1, Len(text) - 1))

\* text is the decimal form of n
IsDecimalOf(text, n) ==
    /\ text # << >>
    /\ \A i \in DOMAIN text : text[i] \in Range(Digits)
    /\ Len(text) > 1 => text[1] # "0"
    /\ NumberOf(text) = n

\* (name, size) or (name, size, prefix), the size the decimal form of an u16
IsStrArrayInput(ts) ==
    /\ Len(ts) \in { 3, 5 }
    /\ ts[1].kind = "Ident"
    /\ ts[2] = Punct(",")
    /\ ts[3].kind = "Literal"
    /\ IsDecimalOf(ts[3].text, NumberOf(ts[3].text))
    /\ NumberOf(ts[3].text) < 65536
    /\ Len(ts) = 5 => ts[4] = Punct(",") /\ ts[5].kind = "Ident"

\* C13: for (name, n) or (name, n, prefix), n an u16, str_array emits an array named
\* name of the declared length n with exactly n strings, the one at position
\* i (from 0) being the prefix (if any) followed by the decimal form of i.
C13_StrArray ==
    (macro = "str_array" /\ output # Pending /\ IsStrArrayInput(input)) =>
        LET n == NumberOf(input[3].text)
            prefix == IF Len(input) = 5 THEN input[5].text ELSE << >>
        IN /\ output.status = "ok"
           /\ output.ident = input[1].text
           /\ output.amount = n
           /\ Len(output.elements) = n
           /\ \A j \in DOMAIN output.elements :
                /\ Len(output.elements[j]) > Len(prefix)
                /\ SubSeq(output.elements[j], 1, Len(prefix)) = prefix
                /\ IsDecimalOf(SubSeq(output.elements[j], Len(prefix) + 1,
                                      Len(output.elements[j])), j - 1)

\* C13 witness: (ARRAY, 4, i_) gives "i_0", "i_1", "i_2", "i_3".
C13_Witness ==
    /\ macro = "str_array"
    /\ input = << Ident(ArrayName), Punct(","), Literal(<<"4">>), Punct(","),
                  Ident(<<"i","_">>) >>
    /\ output.status = "ok"
    /\ output.amount = 4
    /\ output.elements = << <<"i","_","0">>, <<"i","_","1">>,
                            <<"i","_","2">>, <<"i","_","3">> >>

-----------------------------------------------------------------------------
(* The arms of the accessors.                                              *)

\* the identifiers, aliases included, declared in the section of `keyword`
DeclaredIn(ts, keyword) ==
    UNION { Range(DeclaredEntries(ts, keyword)[j]) :
              j \in DOMAIN DeclaredEntries(ts, keyword) }

DeclaredAnywhere(ts) == UNION { DeclaredIn(ts, keyword) : keyword \in Keywords }

\* C14 as stated: every variant declared in any section and every alias has
\* an arm in label, in config_file_key and in each of the three height
\* accessors, so that no accessor reaches its fallback arm for it.
C14_AccessorsTotal ==
    ColorOk =>
        \A id \in DeclaredAnywhere(input) :
            /\ HasArm(output.label_func, id)
            /\ HasArm(output.key_func, id)
            /\ ~height_func(output.entity_height, id).panic
            /\ ~height_func(output.line_height, id).panic
            /\ ~height_func(output.square_hgl_height, id).panic

\* C14 amended: every variant declared in any section and every alias has an
\* arm in label and in config_file_key; a height accessor has an arm for
\* exactly the variants and aliases of the sections of its pass
\* (entity_height: entities; line_height: grid, extensions, entities, ui;
\* square_hgl_height: ui) and reaches its fallback arm, a panic, for every
\* other declared variant.
C14_AccessorArms ==
    ColorOk =>
        \A id \in DeclaredAnywhere(input) :
            /\ HasArm(output.label_func, id)
            /\ HasArm(output.key_func, id)
            /\ ~height_func(output.entity_height, id).panic
                 <=> id \in DeclaredIn(input, KwEntities)
            /\ ~height_func(output.line_height, id).panic
                 <=> id \in DeclaredIn(input, KwGrid) \cup DeclaredIn(input, KwExtensions)
                         \cup DeclaredIn(input, KwEntities) \cup DeclaredIn(input, KwUi)
            /\ ~height_func(output.square_hgl_height, id).panic
                 <=> id \in DeclaredIn(input, KwUi)

\* C14 witness: every section has a variant, one of them with an alias, and
\* the variant of clear reaches the fallback arm of line_height.
C14_Witness ==
    /\ ColorOk
    /\ \A keyword \in Keywords : DeclaredIn(input, keyword) # {}
    /\ AliasMarks(input) # {}
    /\ \E id \in DeclaredIn(input, KwClear) :
         /\ HasArm(output.label_func, id)
         /\ height_func(output.line_height, id).panic

-----------------------------------------------------------------------------
(* The shape of the sections.                                              *)

\* the five keywords in the required order, each followed by its ':' and a
\* list of one or more identifiers, every identifier followed by a comma or
\* by '|' and an alias
IsSectioned(ts) ==
    /\ KeywordSequence(ts) = RequiredOrder
    /\ 1 \in KeywordAt(ts)
    /\ \A i \in DOMAIN ts :
         IF i \in KeywordAt(ts)
         THEN i + 2 <= Len(ts) /\ ts[i + 2].kind = "Ident" /\ i + 2 \notin KeywordAt(ts)
         ELSE IF i - 1 \in KeywordAt(ts) THEN TRUE
         ELSE IF ts[i].kind = "Ident"
         THEN i < Len(ts) /\ ts[i + 1] \in { Punct(","), Punct("|") }
         ELSE IF ts[i] = Punct("|")
         THEN i < Len(ts) /\ ts[i + 1].kind = "Ident" /\ i + 1 \notin KeywordAt(ts)
         ELSE ts[i] = Punct(",") /\ ts[i - 1].kind = "Ident"

\* the section of `keyword` is one identifier without alias
IsSingle(ts, keyword) ==
    /\ Len(DeclaredEntries(ts, keyword)) = 1
    /\ Len(DeclaredEntries(ts, keyword)[1]) = 1

\* every declared identifier has its arm in label and in config_file_key
AllRead(ts) ==
    \A id \in DeclaredAnywhere(ts) :
        HasArm(output.label_func, id) /\ HasArm(output.key_func, id)

\* C15 as stated: all five sections are parsed the same way, a list of one or
\* more identifiers after the keyword and its ':', so that an input such as
\* `clear: A, B, extensions: ...` is accepted with A and B both in clear.
C15_UniformSections ==
    (Expanded("color_enum") /\ IsSectioned(input)) =>
        output.status = "ok" /\ AllRead(input)

\* C15 amended: grid, entities and ui are lists of identifiers (with
\* aliases) read up to the next keyword or the end of the input; clear and
\* extensions are exactly one identifier without alias followed by a comma,
\* and an input with more after clear or extensions, such as
\* `clear: A, B, extensions: ...`, makes color_enum panic.
C15_SingleAndListSections ==
    (Expanded("color_enum") /\ IsSectioned(input)) =>
        /\ output.status = "ok"
             <=> (IsSingle(input, KwClear) /\ IsSingle(input, KwExtensions))
        /\ output.status = "ok" => AllRead(input)
        /\ output.status # "ok" => output = Panicked

\* C15 witness: `clear: Ca, Cb, extensions: ...` panics.
C15_Witness ==
    /\ Expanded("color_enum")
    /\ IsSectioned(input)
    /\ Len(DeclaredEntries(input, KwClear)) = 2
    /\ AliasMarks(input) = {}
    /\ IsSingle(input, KwExtensions)
    /\ output = Panicked

-----------------------------------------------------------------------------
(* The heights between the passes.                                         *)

\* C16: clip_height is above every entity height and below every line
\* height, both thing angle indicator heights (h, the start handed on by the
\* line pass, and h + 1) are above every line height and below every square
\* highlight height, and none of the three is the height of a variant.
C16_SeparatorHeights ==
    ColorOk =>
        LET entity == Heights(output.entity_height)
            line == Heights(output.line_height)
            square == Heights(output.square_hgl_height)
            clip == output.clip_height
            h == output.thing_angle_indicator_height[1]
            h1 == output.thing_angle_indicator_height[2]
        IN /\ \A a \in entity : a < clip
           /\ \A b \in line : clip < b
           /\ h = final_height(clip + 1, 1, output.line_height)
           /\ h1 = h + 1
           /\ \A b \in line : b < h /\ b < h1
           /\ \A c \in square : h < c /\ h1 < c
           /\ { clip, h, h1 } \cap (entity \cup line \cup square) = {}

\* C16 witness: the three passes have two variants each and the entity pass
\* an interval above 1.
C16_Witness ==
    /\ ColorOk
    /\ textures_interval >= 1
    /\ Len(output.entity_height) = 2
    /\ Len(output.square_hgl_height) = 2
    /\ Len(output.line_height) >= 5
    /\ output.square_hgl_height[1].height =
         output.thing_angle_indicator_height[2] + 1

=============================================================================
